---- MODULE Spec2Model ----
(***************************************************************************)
(* A model of the payment bot's business core: the subscription engine     *)
(* with its periodic worker (subscription_system.py), the promo engine     *)
(* (promo_system.py), the referral engine (referral_system.py) and the     *)
(* balance ledger with the payment handlers (bot.py, payment_system.py).   *)
(*                                                                         *)
(* Time is counted in whole days.  Money is counted in whole currency      *)
(* units.  The bot runs on one asyncio event loop: a handler runs without  *)
(* interruption up to its next await of network I/O, so the only places    *)
(* where another handler can run are those awaits.                         *)
(***************************************************************************)
EXTENDS Integers, Sequences, FiniteSets, TLC

\* ---------------------------------------------------------------- bounds
MaxTime == 1
MaxOps == 4
MaxFaults == 1
MaxPromos == 2
MaxUsages == 2
MaxPayments == 3
MaxEvents == 2
MaxLinks == 1
MaxReferrals == 3

\* Python's None, for integer columns (dates, ids).
None == 0 - 1

Users == {1, 2}

VARIABLES
    now,        \* datetime.utcnow(), in days
    subs,       \* table user_subscriptions: row id -> row
    payments,   \* table payments: row id -> row
    wpc,        \* where the coroutine _subscription_worker stands
    wsess,      \* the SQLAlchemy session of the sweep that is running
    sent,       \* bot.send_message calls made by the sweeps
    faults,     \* persistence faults the environment may still inject
    stopping,   \* the worker's task (_task) was cancelled
    pass,       \* history: the billing pass in progress or just finished
    ops,        \* history: handler calls that succeeded (returned True or a row)
    promos,     \* table promo_codes: row id -> row
    usages,     \* table promo_code_usages: row id -> row
    inflight,   \* validations whose caller has not yet called apply_promo_code
    balance,    \* table users: user -> balance
    delivered,  \* history: successful-payment events handled, by payment id
    spent,      \* history: what each user paid for services
    links,      \* table referral_links: row id -> row
    referrals,  \* table referrals: row id -> row
    returned,   \* history: what the last call of register_referral returned
    calc        \* a call of a calculation: its arguments and what it returned

subVars == <<subs, wpc, wsess, sent, faults, stopping, pass, ops>>
promoVars == <<promos, usages, inflight>>
payVars == <<balance, delivered, spent>>
refVars == <<links, referrals, returned>>

vars == <<now, payments, subVars, promoVars, payVars, refVars, calc>>

\* What the handlers of one component leave alone.
notSub == <<promoVars, payVars, refVars, calc>>
notPromo == <<payments, subVars, payVars, refVars, calc>>
notPay == <<subVars, promoVars, refVars, calc>>
notRef == <<payments, subVars, promoVars, payVars, calc>>

\* ------------------------------------------------------- subscription plans
PlanIds == {1, 2, 3}

\* The catalog built with create_subscription_plan: a plan without trial,
\* a plan with a trial period, and a plan that is not offered any more.
plans ==
    [p \in PlanIds |->
        CASE p = 1 -> [price |-> 1, billing_cycle_days |-> 1, trial_period_days |-> 0,
                       is_active |-> TRUE, max_cancellations |-> 1, auto_renewal |-> TRUE]
          [] p = 2 -> [price |-> 2, billing_cycle_days |-> 2, trial_period_days |-> 1,
                       is_active |-> TRUE, max_cancellations |-> 1, auto_renewal |-> TRUE]
          [] p = 3 -> [price |-> 1, billing_cycle_days |-> 1, trial_period_days |-> 0,
                       is_active |-> FALSE, max_cancellations |-> 1, auto_renewal |-> TRUE]]

\* payment_method_id as the callers of subscribe_user pass it.
PaymentMethods == {"None", "pm"}

SubIds == DOMAIN subs
PayIds == DOMAIN payments

\* session.query(SubscriptionPlan).filter(id == plan_id, is_active == True).first()
ActivePlan(plan_id) == plan_id \in PlanIds /\ plans[plan_id].is_active

\* session.query(UserSubscription).filter(user_id == u, status == ACTIVE).first()
ActiveSubsOf(u) == {s \in SubIds : subs[s].user_id = u /\ subs[s].status = "active"}

\* A handler can run only while the worker coroutine is suspended: asleep,
\* or awaiting bot.send_message inside a sweep.
WorkerSuspended == wpc \in {"sleep", "bill_await", "exp_await"}

NoSession == [list |-> <<>>, idx |-> 0, now |-> 0, broken |-> FALSE,
              sub |-> 0, payment |-> 0, marked |-> {}]

\* No calculation has been called.
NoCall == [fn |-> "none"]

NoPass == [start |-> <<>>, due |-> {}, faulted |-> {}, completed |-> {}, done |-> FALSE]

\* ---------------------------------------------------------- subscribe_user
\* The row that subscribe_user inserts.  status takes the column default.
NewSubscription(user_id, plan_id, payment_method_id) ==
    LET plan == plans[plan_id]
        end0 == now + plan.billing_cycle_days
        trial == plan.trial_period_days > 0
        trial_end == now + plan.trial_period_days
    IN  [user_id |-> user_id,
         plan_id |-> plan_id,
         status |-> "active",
         end_date |-> IF trial THEN trial_end + plan.billing_cycle_days ELSE end0,
         next_billing_date |-> IF trial THEN trial_end ELSE end0,
         trial_end_date |-> IF trial THEN trial_end ELSE None,
         auto_renewal |-> plan.auto_renewal,
         cancellation_count |-> 0,
         total_paid |-> 0,
         payment_method_id |-> payment_method_id,
         last_payment_id |-> None]

\* The check for an active subscription of the user left out.
SubscribeAllowed_NoActiveCheck(user_id, plan_id) ==
    ActivePlan(plan_id)

\* subscribe_user returns None when the plan is missing or inactive, or when
\* the user has an active subscription.
SubscribeAllowed(user_id, plan_id) ==
    /\ ActivePlan(plan_id)
    /\ ActiveSubsOf(user_id) = {}

subscribe_user(user_id, plan_id, payment_method_id) ==
    /\ WorkerSuspended
    /\ IF SubscribeAllowed(user_id, plan_id)
       THEN /\ ops < MaxOps
            /\ ops' = ops + 1
            /\ subs' = Append(subs, NewSubscription(user_id, plan_id, payment_method_id))
            /\ sent' = Append(sent, [billing |-> 0, expiry |-> 0])
       ELSE UNCHANGED <<subs, ops, sent>>
    /\ UNCHANGED <<now, payments, wpc, wsess, faults, pass>>
    /\ UNCHANGED <<stopping, notSub>>

\* ------------------------------------------------------ cancel_subscription
\* The check of the limit of cancellations left out.
CancelAllowed_NoLimit(user_id, subscription_id) ==
    /\ subscription_id \in SubIds
    /\ subs[subscription_id].user_id = user_id
    /\ subs[subscription_id].plan_id \in PlanIds

\* The row is looked up by id and owner only; the limit of cancellations is
\* the one check made before the row is cancelled.
CancelAllowed(user_id, subscription_id) ==
    /\ subscription_id \in SubIds
    /\ subs[subscription_id].user_id = user_id
    /\ subs[subscription_id].plan_id \in PlanIds
    /\ subs[subscription_id].cancellation_count
          < plans[subs[subscription_id].plan_id].max_cancellations

cancel_subscription(user_id, subscription_id) ==
    /\ WorkerSuspended
    /\ IF CancelAllowed(user_id, subscription_id)
       THEN /\ ops < MaxOps
            /\ ops' = ops + 1
            /\ subs' = [subs EXCEPT ![subscription_id] =
                        [@ EXCEPT !.status = "cancelled",
                                  !.auto_renewal = FALSE,
                                  !.cancellation_count = @ + 1]]
       ELSE UNCHANGED <<subs, ops>>
    /\ UNCHANGED <<now, payments, wpc, wsess, sent, faults, pass>>
    /\ UNCHANGED <<stopping, notSub>>

\* ------------------------------------------------------- pause_subscription
\* The lookup without the filter on status.
PauseAllowed_AnyStatus(user_id, subscription_id) ==
    /\ subscription_id \in SubIds
    /\ subs[subscription_id].user_id = user_id

PauseAllowed(user_id, subscription_id) ==
    /\ subscription_id \in SubIds
    /\ subs[subscription_id].user_id = user_id
    /\ subs[subscription_id].status = "active"

pause_subscription(user_id, subscription_id) ==
    /\ WorkerSuspended
    /\ IF PauseAllowed(user_id, subscription_id)
       THEN /\ ops < MaxOps
            /\ ops' = ops + 1
            /\ subs' = [subs EXCEPT ![subscription_id].status = "paused"]
       ELSE UNCHANGED <<subs, ops>>
    /\ UNCHANGED <<now, payments, wpc, wsess, sent, faults, pass>>
    /\ UNCHANGED <<stopping, notSub>>

\* ------------------------------------------------------ resume_subscription
ResumeAllowed(user_id, subscription_id) ==
    /\ subscription_id \in SubIds
    /\ subs[subscription_id].user_id = user_id
    /\ subs[subscription_id].status = "paused"

resume_subscription(user_id, subscription_id) ==
    /\ WorkerSuspended
    /\ IF ResumeAllowed(user_id, subscription_id)
       THEN /\ ops < MaxOps
            /\ ops' = ops + 1
            /\ subs' = [subs EXCEPT ![subscription_id].status = "active"]
       ELSE UNCHANGED <<subs, ops>>
    /\ UNCHANGED <<now, payments, wpc, wsess, sent, faults, pass>>
    /\ UNCHANGED <<stopping, notSub>>

\* ------------------------------------------------------------------- time
Tick ==
    /\ WorkerSuspended
    /\ now < MaxTime
    /\ now' = now + 1
    /\ UNCHANGED <<payments, subVars, promoVars, payVars, refVars, calc>>

\* ------------------------------------------------ process_recurring_payments
\* The billing query without the filter on the payment method.
BillingDue_AnyMethod(row, t) ==
    /\ row.status = "active"
    /\ row.auto_renewal
    /\ row.next_billing_date <= t

\* The filter of the billing query, on one row.
BillingDue(row, t) ==
    /\ row.status = "active"
    /\ row.auto_renewal
    /\ row.next_billing_date <= t
    /\ row.payment_method_id # "None"

\* The expiry query with < in place of <=.
ExpiryDue_Strict(row, t) ==
    /\ row.status = "active"
    /\ row.end_date < t

\* The expiry query without the filter on status.
ExpiryDue_AnyStatus(row, t) ==
    row.end_date <= t

\* The filter of the expiry query, on one row.
ExpiryDue(row, t) ==
    /\ row.status = "active"
    /\ row.end_date <= t

\* The row ids of user_subscriptions in id order: .all() of a query returns
\* the matching ones in this order.
RowIds == [i \in 1..Len(subs) |-> i]

Range(seq) == {seq[i] : i \in DOMAIN seq}

\* A commit may fail (the database is locked or gone).  The sweeps never
\* call session.rollback(), so after a failed commit the session refuses every
\* further statement until it is closed.
CommitOutcomes == IF faults > 0 THEN {"ok", "fault"} ELSE {"ok"}

\* The query that opens a sweep is outside every try of the sweep: when it
\* fails (the database is locked or gone) the exception leaves the sweep.
QueryOutcomes == CommitOutcomes

\* The session opens, the due subscriptions are selected.  An exception of
\* the query is caught in _subscription_worker, which goes to sleep.
process_recurring_payments ==
    /\ wpc = "sleep"
    /\ \E outcome \in QueryOutcomes :
          IF outcome = "fault"
          THEN /\ faults' = faults - 1
               /\ UNCHANGED <<wpc, wsess, pass>>
          ELSE LET due == SelectSeq(RowIds, LAMBDA i : BillingDue(subs[i], now))
               IN  /\ wsess' = [NoSession EXCEPT !.list = due, !.idx = 1, !.now = now]
                   /\ pass' = [start |-> subs, due |-> Range(due), faulted |-> {},
                              completed |-> {}, done |-> FALSE]
                   /\ wpc' = "bill_loop"
                   /\ UNCHANGED faults
    /\ UNCHANGED <<now, subs, payments, sent, ops>>
    /\ UNCHANGED <<stopping, notSub>>

\* The payment with an amount that is not the price added to total_paid.
BillingPayment_Double(row) ==
    [user_id |-> row.user_id,
     amount |-> 2 * plans[row.plan_id].price,
     status |-> "pending",
     payment_provider |-> "subscription",
     invoice_payload |-> <<"autopay", row.plan_id>>]

\* The Payment row the sweep inserts for a subscription.
BillingPayment(row) ==
    [user_id |-> row.user_id,
     amount |-> plans[row.plan_id].price,
     status |-> "pending",
     payment_provider |-> "subscription",
     invoice_payload |-> <<"autopay", row.plan_id>>]

\* The next billing date advanced, end_date left as it was.
BilledDates_EndKept(row) ==
    [next_billing_date |-> row.next_billing_date + plans[row.plan_id].billing_cycle_days,
     end_date |-> row.end_date]

\* What the sweep sets on the subscription after the payment: the row was
\* expired by the commit of the payment, so the values are read afresh.
BilledDates(row) ==
    LET next == row.next_billing_date + plans[row.plan_id].billing_cycle_days
    IN  [next_billing_date |-> next, end_date |-> next]

\* One loop body, from the plan query to the await of the notification.
bill_item ==
    /\ wpc = "bill_loop"
    /\ wsess.idx <= Len(wsess.list)
    /\ LET s == wsess.list[wsess.idx]
           row == subs[s]
           skip == /\ wsess' = [wsess EXCEPT !.idx = @ + 1]
                   /\ UNCHANGED <<wpc, payments, sent, faults, pass>>
       IN  IF wsess.broken
           THEN \* the plan query raises; except: continue
                skip
           ELSE IF ~ActivePlan(row.plan_id)
           THEN skip
           ELSE \E outcome \in CommitOutcomes :
                  IF outcome = "fault"
                  THEN \* session.commit() of the payment raises
                       /\ faults' = faults - 1
                       /\ wsess' = [wsess EXCEPT !.idx = @ + 1, !.broken = TRUE]
                       /\ pass' = [pass EXCEPT !.faulted = @ \cup {s}]
                       /\ UNCHANGED <<wpc, payments, sent>>
                  ELSE /\ payments' = Append(payments, BillingPayment(row))
                       /\ wsess' = [wsess EXCEPT !.sub = s,
                                                 !.payment = Len(payments) + 1]
                       /\ sent' = [sent EXCEPT ![s].billing = @ + 1]
                       /\ wpc' = "bill_await"
                       /\ UNCHANGED <<faults, pass>>
    /\ UNCHANGED <<now, subs, ops>>
    /\ UNCHANGED <<stopping, notSub>>

\* send_message has returned (or raised, which is swallowed): the values set
\* before the await are flushed and committed.
bill_commit ==
    /\ wpc = "bill_await"
    /\ LET s == wsess.sub
           dates == BilledDates(subs[s])
       IN  \E outcome \in CommitOutcomes :
             IF outcome = "fault"
             THEN /\ faults' = faults - 1
                  /\ wsess' = [wsess EXCEPT !.idx = @ + 1, !.broken = TRUE]
                  /\ pass' = [pass EXCEPT !.faulted = @ \cup {s}]
                  /\ UNCHANGED <<subs, payments>>
             ELSE /\ payments' = [payments EXCEPT ![wsess.payment].status = "completed"]
                  /\ subs' = [subs EXCEPT ![s] =
                                [@ EXCEPT !.last_payment_id = wsess.payment,
                                          !.total_paid = @ + plans[subs[s].plan_id].price,
                                          !.next_billing_date = dates.next_billing_date,
                                          !.end_date = dates.end_date]]
                  /\ wsess' = [wsess EXCEPT !.idx = @ + 1]
                  /\ pass' = [pass EXCEPT !.completed = @ \cup {s}]
                  /\ UNCHANGED faults
    /\ wpc' = "bill_loop"
    /\ UNCHANGED <<now, sent, ops>>
    /\ UNCHANGED <<stopping, notSub>>

\* The loop is over: session.close(), and the worker goes on to the expiry sweep.
bill_end ==
    /\ wpc = "bill_loop"
    /\ wsess.idx > Len(wsess.list)
    /\ wpc' = "exp_begin"
    /\ wsess' = NoSession
    /\ pass' = [pass EXCEPT !.done = TRUE]
    /\ UNCHANGED <<now, subs, payments, sent, faults, ops>>
    /\ UNCHANGED <<stopping, notSub>>

\* ------------------------------------------------ check_expired_subscriptions
check_expired_subscriptions ==
    /\ wpc = "exp_begin"
    /\ \E outcome \in QueryOutcomes :
          IF outcome = "fault"
          THEN /\ faults' = faults - 1
               /\ wpc' = "sleep"
               /\ UNCHANGED wsess
          ELSE /\ wsess' = [NoSession EXCEPT
                              !.list = SelectSeq(RowIds, LAMBDA i : ExpiryDue(subs[i], now)),
                              !.idx = 1, !.now = now]
               /\ wpc' = "exp_loop"
               /\ UNCHANGED faults
    /\ pass' = NoPass
    /\ UNCHANGED <<now, subs, payments, sent, ops>>
    /\ UNCHANGED <<stopping, notSub>>

\* One loop body: the status is set on the session's object, not yet flushed,
\* and the notification is awaited.
expire_item ==
    /\ wpc = "exp_loop"
    /\ wsess.idx <= Len(wsess.list)
    /\ LET s == wsess.list[wsess.idx]
       IN  /\ wsess' = [wsess EXCEPT !.marked = @ \cup {s}]
           /\ sent' = [sent EXCEPT ![s].expiry = @ + 1]
    /\ wpc' = "exp_await"
    /\ UNCHANGED <<now, subs, payments, faults, pass, ops>>
    /\ UNCHANGED <<stopping, notSub>>

expire_resume ==
    /\ wpc = "exp_await"
    /\ wsess' = [wsess EXCEPT !.idx = @ + 1]
    /\ wpc' = "exp_loop"
    /\ UNCHANGED <<now, subs, payments, sent, faults, pass, ops>>
    /\ UNCHANGED <<stopping, notSub>>

\* The final commit with an exception that is not caught: the task ends.
expire_commit_FaultEnds ==
    /\ wpc = "exp_loop"
    /\ wsess.idx > Len(wsess.list)
    /\ \E outcome \in CommitOutcomes :
          IF outcome = "fault"
          THEN /\ faults' = faults - 1
               /\ wpc' = "exited"
               /\ UNCHANGED subs
          ELSE /\ subs' = [s \in SubIds |->
                             IF s \in wsess.marked
                             THEN [subs[s] EXCEPT !.status = "expired"]
                             ELSE subs[s]]
               /\ wpc' = "sleep"
               /\ UNCHANGED faults
    /\ wsess' = NoSession
    /\ UNCHANGED <<now, payments, sent, pass, ops>>
    /\ UNCHANGED <<stopping, notSub>>

\* The single commit after the loop writes status = EXPIRED for every row
\* the loop marked.  If it raises, _subscription_worker catches and sleeps.
expire_commit ==
    /\ wpc = "exp_loop"
    /\ wsess.idx > Len(wsess.list)
    /\ \E outcome \in CommitOutcomes :
          IF outcome = "fault"
          THEN /\ faults' = faults - 1
               /\ UNCHANGED subs
          ELSE /\ subs' = [s \in SubIds |->
                             IF s \in wsess.marked
                             THEN [subs[s] EXCEPT !.status = "expired"]
                             ELSE subs[s]]
               /\ UNCHANGED faults
    /\ wsess' = NoSession
    /\ wpc' = "sleep"
    /\ UNCHANGED <<now, payments, sent, pass, ops>>
    /\ UNCHANGED <<stopping, notSub>>

\* ------------------------------------------------------- the end of the task
\* start_background_tasks keeps the task of the worker in _task; a task is
\* stopped with Task.cancel(), which raises CancelledError in the coroutine
\* at the await where it is suspended.  At asyncio.sleep the exception leaves
\* the while loop and the task ends.  At bot.send_message it is caught by the
\* bare except around the call, and the sweep goes on as if the call had
\* returned.
worker_cancel ==
    /\ ~stopping
    /\ WorkerSuspended
    /\ stopping' = TRUE
    /\ wpc' = IF wpc = "sleep" THEN "exited" ELSE wpc
    /\ UNCHANGED <<now, subs, payments, wsess, sent, faults, pass, ops>>
    /\ UNCHANGED notSub

\* ------------------------------------------------------ the subscription core
InitSub ==
    /\ now = 0
    /\ subs = <<>>
    /\ payments = <<>>
    /\ wpc = "sleep"
    /\ wsess = NoSession
    /\ sent = <<>>
    /\ faults = 0
    /\ stopping = FALSE
    /\ pass = NoPass
    /\ ops = 0
    /\ promos = <<>>
    /\ usages = <<>>
    /\ inflight = <<>>
    /\ balance = [u \in Users |-> 0]
    /\ delivered = [p \in 1..MaxPayments |-> 0]
    /\ spent = [u \in Users |-> 0]
    /\ links = <<>>
    /\ referrals = <<>>
    /\ returned = [referred_id |-> 0, value |-> "none"]
    /\ calc = NoCall

\* What the handlers are called with: the plan without trial with and without
\* a saved payment method, the trial plan with one, the inactive plan, a plan
\* id that does not exist; every subscription id the table can hold.
SubscribeRequests == {<<1, "None">>, <<1, "pm">>, <<2, "pm">>, <<3, "pm">>, <<4, "pm">>}

RequestedSubIds == 1..MaxOps

SubStep ==
    \/ \E u \in Users, r \in SubscribeRequests : subscribe_user(u, r[1], r[2])
    \/ \E u \in Users, s \in RequestedSubIds : cancel_subscription(u, s)
    \/ \E u \in Users, s \in RequestedSubIds : pause_subscription(u, s)
    \/ \E u \in Users, s \in RequestedSubIds : resume_subscription(u, s)
    \/ Tick
    \/ process_recurring_payments
    \/ bill_item
    \/ bill_commit
    \/ bill_end
    \/ check_expired_subscriptions
    \/ expire_item
    \/ expire_resume
    \/ expire_commit

NextSub == SubStep

\* The subscription core on a database that never fails.
SpecSub == InitSub /\ [][NextSub]_vars

\* The subscription core with the cancellation of the worker's task.
NextSubShutdown ==
    \/ SubStep
    \/ worker_cancel

SpecSubShutdown == InitSub /\ [][NextSubShutdown]_vars

\* The steps of the coroutine _subscription_worker.
WorkerNext ==
    \/ process_recurring_payments
    \/ bill_item
    \/ bill_commit
    \/ bill_end
    \/ check_expired_subscriptions
    \/ expire_item
    \/ expire_resume
    \/ expire_commit

\* The subscription core entered a day after user 1 subscribed to plan 1 with
\* a saved payment method and paused the subscription: its first billing
\* date has come while it was paused.
OverdueSubscription ==
    [user_id |-> 1,
     plan_id |-> 1,
     status |-> "paused",
     end_date |-> 0,
     next_billing_date |-> 0,
     trial_end_date |-> None,
     auto_renewal |-> plans[1].auto_renewal,
     cancellation_count |-> 0,
     total_paid |-> 0,
     payment_method_id |-> "pm",
     last_payment_id |-> None]

InitSubOverdue ==
    /\ now = 0
    /\ subs = <<OverdueSubscription>>
    /\ payments = <<>>
    /\ wpc = "sleep"
    /\ wsess = NoSession
    /\ sent = <<[billing |-> 0, expiry |-> 0]>>
    /\ faults = 0
    /\ stopping = FALSE
    /\ pass = NoPass
    /\ ops = 2
    /\ promos = <<>>
    /\ usages = <<>>
    /\ inflight = <<>>
    /\ balance = [u \in Users |-> 0]
    /\ delivered = [p \in 1..MaxPayments |-> 0]
    /\ spent = [u \in Users |-> 0]
    /\ links = <<>>
    /\ referrals = <<>>
    /\ returned = [referred_id |-> 0, value |-> "none"]
    /\ calc = NoCall

SpecSubOverdue == InitSubOverdue /\ [][NextSub]_vars

\* The subscription core on a database whose commits may fail.
InitSubFaults ==
    /\ now = 0
    /\ subs = <<>>
    /\ payments = <<>>
    /\ wpc = "sleep"
    /\ wsess = NoSession
    /\ sent = <<>>
    /\ faults = MaxFaults
    /\ stopping = FALSE
    /\ pass = NoPass
    /\ ops = 0
    /\ promos = <<>>
    /\ usages = <<>>
    /\ inflight = <<>>
    /\ balance = [u \in Users |-> 0]
    /\ delivered = [p \in 1..MaxPayments |-> 0]
    /\ spent = [u \in Users |-> 0]
    /\ links = <<>>
    /\ referrals = <<>>
    /\ returned = [referred_id |-> 0, value |-> "none"]
    /\ calc = NoCall

SpecSubFaults == InitSubFaults /\ [][NextSub]_vars

\* The event loop runs the worker whenever it can run: asyncio.sleep(300)
\* returns, and an awaited bot.send_message returns or raises.
SpecSubFaultsLive == InitSubFaults /\ [][NextSub]_vars /\ WF_vars(WorkerNext)

\* ============================================================ promo engine
\* Python's truth value of a nullable number: None and 0 are both false.
Truthy(x) == x # None /\ x # 0

\* min() left out: the first argument, whatever the second.
Min_First(a, b) == a

Min(a, b) == IF a <= b THEN a ELSE b

\* str.upper(), letter by letter, on codes spelled as sequences of letters.
UpperChar(ch) ==
    CASE ch = "a" -> "A"
      [] ch = "b" -> "B"
      [] OTHER -> ch

Upper(code) == [i \in DOMAIN code |-> UpperChar(code[i])]

PromoIds == DOMAIN promos

\* What create_promo_code is called with.
PromoInputs ==
    { [code |-> <<"a">>, promo_type |-> "percentage", discount_value |-> 50,
       valid_to |-> None, max_uses |-> 1, max_discount |-> 80, min_order_amount |-> 0],
      [code |-> <<"A">>, promo_type |-> "fixed", discount_value |-> 200,
       valid_to |-> None, max_uses |-> 2, max_discount |-> None, min_order_amount |-> 150],
      [code |-> <<"b">>, promo_type |-> "free_service", discount_value |-> 0,
       valid_to |-> 0, max_uses |-> None, max_discount |-> None, min_order_amount |-> 0],
      [code |-> <<"B">>, promo_type |-> "percentage", discount_value |-> 10,
       valid_to |-> None, max_uses |-> 0, max_discount |-> None, min_order_amount |-> 0] }

OrderAmounts == {100, 1000}

\* The codes users type: the stored ones, their lower-case spellings, and an
\* unknown one.
TypedCodes == {<<"a">>, <<"A">>, <<"b">>, <<"B">>, <<"c">>}

\* -------------------------------------------------------- create_promo_code
\* The existence check compares the code as given; the row stores it in
\* upper case, and the column is unique.
CreateOutcome(code) ==
    IF \E p \in PromoIds : promos[p].code = code THEN "ValueError"
    ELSE IF \E p \in PromoIds : promos[p].code = Upper(code) THEN "IntegrityError"
    ELSE "created"

\* The row with the code stored as it was given.
NewPromoCode_AsGiven(in) ==
    [code |-> in.code,
     promo_type |-> in.promo_type,
     discount_value |-> in.discount_value,
     max_discount |-> in.max_discount,
     min_order_amount |-> in.min_order_amount,
     valid_from |-> now,
     valid_to |-> in.valid_to,
     max_uses |-> in.max_uses,
     current_uses |-> 0,
     is_active |-> TRUE]

NewPromoCode(in) ==
    [code |-> Upper(in.code),
     promo_type |-> in.promo_type,
     discount_value |-> in.discount_value,
     max_discount |-> in.max_discount,
     min_order_amount |-> in.min_order_amount,
     valid_from |-> now,
     valid_to |-> in.valid_to,
     max_uses |-> in.max_uses,
     current_uses |-> 0,
     is_active |-> TRUE]

create_promo_code(in) ==
    /\ IF CreateOutcome(in.code) = "created"
       THEN /\ Len(promos) < MaxPromos
            /\ promos' = Append(promos, NewPromoCode(in))
       ELSE UNCHANGED promos
    /\ UNCHANGED <<now, usages, inflight>>
    /\ UNCHANGED notPromo

\* ------------------------------------------------------ _calculate_discount
\* amount * (percent / 100)
Percent(amount, percent) == (amount * percent) \div 100

\* The percentage discount without the clamp to max_discount.
_calculate_discount_Unclamped(promo_code, order_amount) ==
    CASE promo_code.promo_type = "percentage" ->
            LET discount_amount == Percent(order_amount, promo_code.discount_value)
            IN  [discount_amount |-> discount_amount,
                 final_amount |-> order_amount - discount_amount]
      [] promo_code.promo_type = "fixed" ->
            LET discount_amount == Min(promo_code.discount_value, order_amount)
            IN  [discount_amount |-> discount_amount,
                 final_amount |-> order_amount - discount_amount]
      [] promo_code.promo_type = "free_service" ->
            [discount_amount |-> order_amount, final_amount |-> 0]
      [] OTHER ->
            [discount_amount |-> 0, final_amount |-> order_amount]

_calculate_discount(promo_code, order_amount) ==
    CASE promo_code.promo_type = "percentage" ->
            LET computed == Percent(order_amount, promo_code.discount_value)
                discount_amount ==
                    IF Truthy(promo_code.max_discount) /\ computed > promo_code.max_discount
                    THEN promo_code.max_discount
                    ELSE computed
            IN  [discount_amount |-> discount_amount,
                 final_amount |-> order_amount - discount_amount]
      [] promo_code.promo_type = "fixed" ->
            LET discount_amount == Min(promo_code.discount_value, order_amount)
            IN  [discount_amount |-> discount_amount,
                 final_amount |-> order_amount - discount_amount]
      [] promo_code.promo_type = "free_service" ->
            [discount_amount |-> order_amount, final_amount |-> 0]
      [] OTHER ->
            [discount_amount |-> 0, final_amount |-> order_amount]

\* ------------------------------------------------------ validate_promo_code
\* The active row with the upper-cased code (codes are unique).
FindActivePromo(code) ==
    {p \in PromoIds : promos[p].code = Upper(code) /\ promos[p].is_active}

\* The usage looked up with the two columns taken for one another.
HasUsage_Swapped(promo_code_id, user_id) ==
    \E k \in DOMAIN usages :
        usages[k].promo_code_id = user_id /\ usages[k].user_id = promo_code_id

HasUsage(promo_code_id, user_id) ==
    \E k \in DOMAIN usages :
        usages[k].promo_code_id = promo_code_id /\ usages[k].user_id = user_id

Rejected(message) ==
    [valid |-> FALSE, message |-> message, promo_code_id |-> None,
     discount_amount |-> 0, final_amount |-> 0]

\* The checks with the earlier usage looked for before the minimum order.
validate_promo_code_UsageFirst(code, user_id, order_amount) ==
    IF FindActivePromo(code) = {} THEN Rejected("not found")
    ELSE LET p == CHOOSE q \in FindActivePromo(code) : TRUE
             promo_code == promos[p]
         IN  IF promo_code.valid_from # None /\ promo_code.valid_from > now
             THEN Rejected("not active yet")
             ELSE IF promo_code.valid_to # None /\ promo_code.valid_to < now
             THEN Rejected("expired")
             ELSE IF Truthy(promo_code.max_uses)
                     /\ promo_code.current_uses >= promo_code.max_uses
             THEN Rejected("usage limit reached")
             ELSE IF HasUsage(p, user_id)
             THEN Rejected("already used")
             ELSE IF order_amount < promo_code.min_order_amount
             THEN Rejected("order below minimum")
             ELSE LET discount_info == _calculate_discount(promo_code, order_amount)
                  IN  [valid |-> TRUE, message |-> "discount",
                       promo_code_id |-> p,
                       discount_amount |-> discount_info.discount_amount,
                       final_amount |-> discount_info.final_amount]

validate_promo_code(code, user_id, order_amount) ==
    IF FindActivePromo(code) = {} THEN Rejected("not found")
    ELSE LET p == CHOOSE q \in FindActivePromo(code) : TRUE
             promo_code == promos[p]
         IN  IF promo_code.valid_from # None /\ promo_code.valid_from > now
             THEN Rejected("not active yet")
             ELSE IF promo_code.valid_to # None /\ promo_code.valid_to < now
             THEN Rejected("expired")
             ELSE IF Truthy(promo_code.max_uses)
                     /\ promo_code.current_uses >= promo_code.max_uses
             THEN Rejected("usage limit reached")
             ELSE IF order_amount < promo_code.min_order_amount
             THEN Rejected("order below minimum")
             ELSE IF HasUsage(p, user_id)
             THEN Rejected("already used")
             ELSE LET discount_info == _calculate_discount(promo_code, order_amount)
                  IN  [valid |-> TRUE, message |-> "discount",
                       promo_code_id |-> p,
                       discount_amount |-> discount_info.discount_amount,
                       final_amount |-> discount_info.final_amount]

\* A request validates a code; when the code is valid the caller goes on, at
\* some later moment, to apply it.  MaxUsages bounds the requests that get
\* that far.
promo_validate(code, user_id, order_amount) ==
    LET result == validate_promo_code(code, user_id, order_amount)
    IN  /\ result.valid
        /\ Len(inflight) + Len(usages) < MaxUsages
        /\ inflight' = Append(inflight, [promo_code_id |-> result.promo_code_id,
                                         user_id |-> user_id,
                                         order_amount |-> order_amount])
        /\ UNCHANGED <<now, promos, usages>>
    /\ UNCHANGED notPromo

\* --------------------------------------------------------- apply_promo_code
RemoveAt(seq, i) == SubSeq(seq, 1, i - 1) \o SubSeq(seq, i + 1, Len(seq))

\* The usage row apply_promo_code inserts.
NewUsage(promo_code_id, user_id, order_amount) ==
    [promo_code_id |-> promo_code_id,
     user_id |-> user_id,
     order_amount |-> order_amount,
     discount_applied |->
        _calculate_discount(promos[promo_code_id], order_amount).discount_amount]

\* The deactivation at the cap, without counting the use.
UsedPromo_Uncounted(promo_code) ==
    [promo_code EXCEPT
        !.is_active = IF Truthy(promo_code.max_uses)
                         /\ promo_code.current_uses + 1 >= promo_code.max_uses
                      THEN FALSE ELSE @]

\* One more use, without the deactivation at the cap.
UsedPromo_StaysActive(promo_code) ==
    [promo_code EXCEPT !.current_uses = @ + 1]

\* The promo row after apply_promo_code: one more use, and inactive once the
\* cap is reached.
UsedPromo(promo_code) ==
    LET current_uses == promo_code.current_uses + 1
    IN  [promo_code EXCEPT
            !.current_uses = current_uses,
            !.is_active = IF Truthy(promo_code.max_uses)
                             /\ current_uses >= promo_code.max_uses
                          THEN FALSE ELSE @]

apply_promo_code(promo_code_id, user_id, order_amount) ==
    IF promo_code_id \notin PromoIds
    THEN UNCHANGED <<promos, usages>>
    ELSE /\ usages' = Append(usages, NewUsage(promo_code_id, user_id, order_amount))
         /\ promos' = [promos EXCEPT ![promo_code_id] = UsedPromo(@)]

\* The caller of a pending validation applies the code.
promo_apply(i) ==
    /\ apply_promo_code(inflight[i].promo_code_id, inflight[i].user_id,
                        inflight[i].order_amount)
    /\ inflight' = RemoveAt(inflight, i)
    /\ UNCHANGED now
    /\ UNCHANGED notPromo

\* apply_promo_code called with an id that is not in the table.
promo_apply_unknown(user_id, order_amount) ==
    /\ apply_promo_code(Len(promos) + 1, user_id, order_amount)
    /\ UNCHANGED <<now, inflight>>
    /\ UNCHANGED notPromo

InitPromo == InitSub

PromoStep ==
    \/ \E in \in PromoInputs : create_promo_code(in)
    \/ \E code \in TypedCodes, u \in Users, a \in OrderAmounts : promo_validate(code, u, a)
    \/ \E i \in DOMAIN inflight : promo_apply(i)
    \/ \E u \in Users, a \in OrderAmounts : promo_apply_unknown(u, a)

NextPromo ==
    \/ PromoStep
    \/ Tick

SpecPromo == InitPromo /\ [][NextPromo]_vars

\* ================================================= ledger and payment handlers
\* The service catalog: a free service and a paid one.
ServiceIds == {1, 2}

services ==
    [s \in ServiceIds |->
        CASE s = 1 -> [price |-> 0]
          [] s = 2 -> [price |-> 1]]

DepositAmounts == {1, 2}

Providers == {"telegram", "yookassa"}

\* ---------------------------------------------------- process_payment_method
\* TelegramPaymentSystem.create_payment stores a fresh uuid as the invoice
\* payload; YooKassaPaymentSystem.create_payment stores none.  status takes
\* the column default.
DepositPayment(user_id, amount, provider) ==
    [user_id |-> user_id,
     amount |-> amount,
     status |-> "pending",
     payment_provider |-> provider,
     invoice_payload |-> IF provider = "telegram"
                         THEN <<"uuid", Len(payments) + 1>>
                         ELSE <<"None", 0>>]

process_payment_method(user_id, amount, provider) ==
    /\ Len(payments) < MaxPayments
    /\ payments' = Append(payments, DepositPayment(user_id, amount, provider))
    /\ UNCHANGED <<now, payVars>>
    /\ UNCHANGED notPay

\* ------------------------------------------------ process_successful_payment
\* .first() of the payments with this invoice payload.
PaymentByPayload(payload) ==
    {p \in PayIds : payments[p].invoice_payload = payload}

\* The attributes of the object db: the class Database defines db_url,
\* engine, SessionLocal, init_db and get_session.
DatabaseAttributes == {"db_url", "engine", "SessionLocal", "init_db", "get_session"}

\* The handler finds the payment, sets status on the session's object and
\* then evaluates db.func.now(): the attribute lookup raises, so the handler
\* ends before session.commit() and nothing it set is stored.
process_successful_payment(payload) ==
    /\ IF PaymentByPayload(payload) = {}
       THEN UNCHANGED <<payments, balance, delivered>>
       ELSE LET p == CHOOSE q \in PaymentByPayload(payload) :
                        \A r \in PaymentByPayload(payload) : q <= r
            IN  /\ delivered[p] < MaxEvents
                /\ delivered' = [delivered EXCEPT ![p] = @ + 1]
                /\ IF "func" \in DatabaseAttributes
                   THEN /\ payments' = [payments EXCEPT ![p].status = "completed"]
                        /\ balance' = [u \in Users |->
                                          IF u = payments[p].user_id
                                          THEN balance[u] + payments[p].amount
                                          ELSE balance[u]]
                   ELSE UNCHANGED <<payments, balance>>
    /\ UNCHANGED <<now, spent>>
    /\ UNCHANGED notPay

\* --------------------------------------------------- process_service_selection
\* The check of the balance left out.
InsufficientFunds_Unchecked(user_id, service_id) == FALSE

\* if user.balance < service.price: the purchase is refused.
InsufficientFunds(user_id, service_id) ==
    balance[user_id] < services[service_id].price

\* The purchase recorded with the column default of status.
PurchasePayment_Pending(user_id, service_id) ==
    [user_id |-> user_id,
     amount |-> services[service_id].price,
     status |-> "pending",
     payment_provider |-> "internal",
     invoice_payload |-> <<"service", service_id>>]

\* The Payment row that records a purchase.
PurchasePayment(user_id, service_id) ==
    [user_id |-> user_id,
     amount |-> services[service_id].price,
     status |-> "completed",
     payment_provider |-> "internal",
     invoice_payload |-> <<"service", service_id>>]

\* update_user_balance(user_id, amount): user.balance += amount
update_user_balance(user_id, amount) ==
    balance' = [balance EXCEPT ![user_id] = @ + amount]

\* Nothing is awaited between reading the balance and writing it: the check
\* and the debit are one step of the event loop.
process_service_selection(user_id, service_id) ==
    /\ IF service_id \notin ServiceIds
       THEN UNCHANGED <<payments, balance, spent>>
       ELSE IF InsufficientFunds(user_id, service_id)
       THEN UNCHANGED <<payments, balance, spent>>
       ELSE /\ Len(payments) < MaxPayments
            /\ update_user_balance(user_id, 0 - services[service_id].price)
            /\ payments' = Append(payments, PurchasePayment(user_id, service_id))
            /\ spent' = [spent EXCEPT ![user_id] = @ + services[service_id].price]
    /\ UNCHANGED <<now, delivered>>
    /\ UNCHANGED notPay

InitPay == InitSub

\* The payloads Telegram reports: those of the invoices sent, and one that
\* matches no payment.
ReportedPayloads == {<<"uuid", p>> : p \in 1..(MaxPayments + 1)}

NextPay ==
    \/ \E u \in Users, a \in DepositAmounts, pr \in Providers :
          process_payment_method(u, a, pr)
    \/ \E payload \in ReportedPayloads : process_successful_payment(payload)
    \/ \E u \in Users, s \in ServiceIds \cup {3} : process_service_selection(u, s)

SpecPay == InitPay /\ [][NextPay]_vars

\* The three writers of the payments table side by side, for one user: the
\* deposit and purchase handlers, and the billing sweep of the worker over
\* the subscriptions the user takes to plan 1.
NextPayments ==
    \/ \E pr \in Providers : process_payment_method(1, 1, pr)
    \/ \E payload \in ReportedPayloads : process_successful_payment(payload)
    \/ \E s \in ServiceIds : process_service_selection(1, s)
    \/ \E pm \in {"None", "pm"} : subscribe_user(1, 1, pm)
    \/ Tick
    \/ WorkerNext

SpecPayments == InitPay /\ [][NextPayments]_vars

\* ========================================================== referral engine
LinkIds == DOMAIN links
ReferralIds == DOMAIN referrals

\* The codes of referral links: two custom codes and two generated ones.
CustomCodes == {"x", "y"}
GeneratedCodes == {"G1", "G2"}

\* What register_referral is called with as referral_code ("" for none).
RegisterCodes == CustomCodes \cup {"", "zz"}

\* ---------------------------------------------------- generate_referral_code
LinkMaxUses == 100
LinkDays == 30
DefaultRewardPercent == 10

NewReferralLink(user_id, code) ==
    [user_id |-> user_id,
     code |-> code,
     expires_at |-> now + LinkDays,
     is_active |-> TRUE,
     max_uses |-> LinkMaxUses,
     current_uses |-> 0,
     reward_amount |-> 0,
     reward_percent |-> DefaultRewardPercent]

CodeTaken(code) == \E l \in LinkIds : links[l].code = code

\* custom_code = "" stands for no custom code: a code is generated and
\* generated again until it is free.
generate_referral_code(user_id, custom_code) ==
    /\ IF custom_code # ""
       THEN IF CodeTaken(custom_code)
            THEN UNCHANGED links
            ELSE /\ Len(links) < MaxLinks
                 /\ links' = Append(links, NewReferralLink(user_id, custom_code))
       ELSE \E code \in GeneratedCodes :
               /\ ~CodeTaken(code)
               /\ Len(links) < MaxLinks
               /\ links' = Append(links, NewReferralLink(user_id, code))
    /\ UNCHANGED <<now, referrals, returned>>
    /\ UNCHANGED notRef

\* -------------------------------------------------------- register_referral
\* The lookup of an earlier referral keyed by the referrer instead.
AlreadyReferred_ByReferrer(referred_id) ==
    \E r \in DOMAIN referrals : referrals[r].referrer_id = referred_id

\* session.query(Referral).filter(referred_id == referred_id).first()
AlreadyReferred(referred_id) ==
    \E r \in ReferralIds : referrals[r].referred_id = referred_id

\* The lookup of the link without the filter on its owner.
MatchingLinks_AnyOwner(referrer_id, referral_code) ==
    {l \in LinkIds : /\ links[l].code = referral_code
                     /\ links[l].is_active}

\* The active link with this code that belongs to the referrer.
MatchingLinks(referrer_id, referral_code) ==
    {l \in LinkIds : /\ links[l].code = referral_code
                     /\ links[l].is_active
                     /\ links[l].user_id = referrer_id}

\* The check of the cap left out.
LinkExhausted_Never(l) == FALSE

LinkExhausted(l) ==
    Truthy(links[l].max_uses) /\ links[l].current_uses >= links[l].max_uses

register_referral(referrer_id, referred_id, referral_code) ==
    /\ IF AlreadyReferred(referred_id)
       THEN /\ returned' = [referred_id |-> referred_id, value |-> "False"]
            /\ UNCHANGED <<links, referrals>>
       ELSE IF referral_code # "" /\ MatchingLinks(referrer_id, referral_code) # {}
       THEN LET l == CHOOSE m \in MatchingLinks(referrer_id, referral_code) : TRUE
            IN  IF LinkExhausted(l)
                THEN /\ returned' = [referred_id |-> referred_id, value |-> "False"]
                     /\ UNCHANGED <<links, referrals>>
                ELSE /\ Len(referrals) < MaxReferrals
                     /\ links' = [links EXCEPT ![l].current_uses = @ + 1]
                     /\ referrals' = Append(referrals,
                           [referrer_id |-> referrer_id, referred_id |-> referred_id,
                            referral_link_id |-> l])
                     /\ returned' = [referred_id |-> referred_id, value |-> "True"]
       ELSE /\ Len(referrals) < MaxReferrals
            /\ referrals' = Append(referrals,
                  [referrer_id |-> referrer_id, referred_id |-> referred_id,
                   referral_link_id |-> None])
            /\ returned' = [referred_id |-> referred_id, value |-> "True"]
            /\ UNCHANGED links
    /\ UNCHANGED now
    /\ UNCHANGED notRef

\* ------------------------------------------------ calculate_referral_reward
\* payment_amount * 0.1, written as a percentage.
GlobalRewardPercent == 10

\* A reading that prefers the link's flat amount to its percentage.
calculate_referral_reward_FlatFirst(payment_amount, referral) ==
    IF Truthy(referral.referral_link_id) /\ referral.referral_link_id \in LinkIds
    THEN LET referral_link == links[referral.referral_link_id]
         IN  IF referral_link.reward_amount > 0
             THEN referral_link.reward_amount
             ELSE Percent(payment_amount, referral_link.reward_percent)
    ELSE Percent(payment_amount, GlobalRewardPercent)

\* The link is looked up by referral.referral_link_id when that is set (not
\* None, not 0).  A link that is found decides alone: its percentage when
\* positive, else its reward_amount, whatever that is.
calculate_referral_reward(payment_amount, referral) ==
    IF Truthy(referral.referral_link_id)
    THEN IF referral.referral_link_id \in LinkIds
         THEN LET referral_link == links[referral.referral_link_id]
              IN  IF referral_link.reward_percent > 0
                  THEN Percent(payment_amount, referral_link.reward_percent)
                  ELSE referral_link.reward_amount
         ELSE Percent(payment_amount, GlobalRewardPercent)
    ELSE Percent(payment_amount, GlobalRewardPercent)

InitRef == InitSub

\* The people who can be invited: the users and one newcomer.
People == Users \cup {3}

NextRef ==
    \/ \E u \in Users, code \in CustomCodes \cup {""} : generate_referral_code(u, code)
    \/ \E a \in Users, b \in People, code \in RegisterCodes : register_referral(a, b, code)
    \/ Tick

SpecRef == InitRef /\ [][NextRef]_vars

\* ------------------------------------------- the engine on a table of links
\* The caps a link can carry: none (the column is nullable), a small one set
\* in the table, the one generate_referral_code assigns.
LinkCaps == {None, 1, 2, LinkMaxUses}

\* When the link was generated: today, or LinkDays ago, so that it expires
\* today.
LinkExpiries == {now + LinkDays, now}

\* The link "x" of user 1 as referral_links holds it: as generate_referral_code
\* left it today or LinkDays ago, or with is_active and max_uses changed in
\* the table (the engine itself never changes them).
ConfiguredLinks ==
    {[NewReferralLink(1, "x") EXCEPT !.is_active = active, !.max_uses = cap,
                                     !.expires_at = expires_at] :
        active \in BOOLEAN, cap \in LinkCaps, expires_at \in LinkExpiries}

InitRefLinks ==
    /\ now = 0
    /\ subs = <<>>
    /\ payments = <<>>
    /\ wpc = "sleep"
    /\ wsess = NoSession
    /\ sent = <<>>
    /\ faults = 0
    /\ stopping = FALSE
    /\ pass = NoPass
    /\ ops = 0
    /\ promos = <<>>
    /\ usages = <<>>
    /\ inflight = <<>>
    /\ balance = [u \in Users |-> 0]
    /\ delivered = [p \in 1..MaxPayments |-> 0]
    /\ spent = [u \in Users |-> 0]
    /\ \E link \in ConfiguredLinks : links = <<link>>
    /\ referrals = <<>>
    /\ returned = [referred_id |-> 0, value |-> "none"]
    /\ calc = NoCall

NextRefLinks ==
    \/ \E a \in Users, b \in People, code \in RegisterCodes : register_referral(a, b, code)
    \/ Tick

SpecRefLinks == InitRefLinks /\ [][NextRefLinks]_vars

\* ===================================================== discount calculation
\* The promo codes and order amounts _calculate_discount is called with: it
\* reads promo_type, discount_value and max_discount of the row.
DiscountPromos ==
    [promo_type : {"percentage", "fixed", "free_service"},
     discount_value : {0, 10, 50, 200},
     max_discount : {None, 0, 80}]

DiscountOrders == {0, 100, 150, 1000}

InitDiscount ==
    /\ now = 0
    /\ subs = <<>>
    /\ payments = <<>>
    /\ wpc = "sleep"
    /\ wsess = NoSession
    /\ sent = <<>>
    /\ faults = 0
    /\ stopping = FALSE
    /\ pass = NoPass
    /\ ops = 0
    /\ promos = <<>>
    /\ usages = <<>>
    /\ inflight = <<>>
    /\ balance = [u \in Users |-> 0]
    /\ delivered = [p \in 1..MaxPayments |-> 0]
    /\ spent = [u \in Users |-> 0]
    /\ links = <<>>
    /\ referrals = <<>>
    /\ returned = [referred_id |-> 0, value |-> "none"]
    /\ \E promo_code \in DiscountPromos, order_amount \in DiscountOrders :
          calc = [fn |-> "_calculate_discount", promo_code |-> promo_code,
                  order_amount |-> order_amount, done |-> FALSE,
                  result |-> [discount_amount |-> 0, final_amount |-> 0]]

\* The call returns.
calculate_discount_return ==
    /\ calc.fn = "_calculate_discount"
    /\ ~calc.done
    /\ calc' = [calc EXCEPT !.done = TRUE,
                            !.result = _calculate_discount(calc.promo_code,
                                                           calc.order_amount)]
    /\ UNCHANGED <<now, payments, subVars, promoVars, payVars, refVars>>

NextDiscount == calculate_discount_return

SpecDiscount == InitDiscount /\ [][NextDiscount]_vars

\* =============================================================== validation
\* The row of the code "A" as promo_codes may hold it when validate_promo_code
\* is called at day 1: active or not, valid from day 0 or from day 2, without
\* an end or ended at day 0, without a cap or with a cap of 2, used not at all
\* or twice, with or without a minimum order.
ValidatePromos ==
    [code : {<<"A">>}, promo_type : {"percentage"}, discount_value : {10},
     max_discount : {None}, min_order_amount : {0, 150},
     valid_from : {0, 2}, valid_to : {None, 0},
     max_uses : {None, 2}, current_uses : {0, 2}, is_active : BOOLEAN]

\* The usage row of user 1 for the code.
ValidateUsage ==
    [promo_code_id |-> 1, user_id |-> 1, order_amount |-> 1000,
     discount_applied |-> 100]

\* The calls: the code in lower case or an unknown one, by user 1 who may
\* have used it or user 2 who has not.
ValidateCodes == {<<"a">>, <<"c">>}

InitValidate ==
    /\ now = 1
    /\ subs = <<>>
    /\ payments = <<>>
    /\ wpc = "sleep"
    /\ wsess = NoSession
    /\ sent = <<>>
    /\ faults = 0
    /\ stopping = FALSE
    /\ pass = NoPass
    /\ ops = 0
    /\ \E promo_code \in ValidatePromos :
          /\ promos = <<promo_code>>
          /\ usages \in (IF promo_code.current_uses > 0
                         THEN {<<>>, <<ValidateUsage>>} ELSE {<<>>})
    /\ inflight = <<>>
    /\ balance = [u \in Users |-> 0]
    /\ delivered = [p \in 1..MaxPayments |-> 0]
    /\ spent = [u \in Users |-> 0]
    /\ links = <<>>
    /\ referrals = <<>>
    /\ returned = [referred_id |-> 0, value |-> "none"]
    /\ \E code \in ValidateCodes, user_id \in Users, order_amount \in OrderAmounts :
          calc = [fn |-> "validate_promo_code", code |-> code, user_id |-> user_id,
                  order_amount |-> order_amount, done |-> FALSE,
                  result |-> Rejected("none")]

\* The call returns; the session is closed without a commit.
validate_return ==
    /\ calc.fn = "validate_promo_code"
    /\ ~calc.done
    /\ calc' = [calc EXCEPT !.done = TRUE,
                            !.result = validate_promo_code(calc.code, calc.user_id,
                                                           calc.order_amount)]
    /\ UNCHANGED <<now, payments, subVars, promoVars, payVars, refVars>>

NextValidate == validate_return

SpecValidate == InitValidate /\ [][NextValidate]_vars

\* ======================================================= reward calculation
\* What calculate_referral_reward finds in referral_links: one link of user
\* 1, its reward columns as the default leaves them or as they were set in
\* the table.
RewardPercents == {0, 10, 20}
RewardAmounts == {0, 25, 50}
RewardPayments == {0, 100, 500}

\* The referrals the reward is calculated for: without a link, with link 1,
\* with a link whose row is gone.
RewardReferrals ==
    [referrer_id : {1}, referred_id : {2}, referral_link_id : {None, 1, 2}]

InitReward ==
    /\ now = 0
    /\ subs = <<>>
    /\ payments = <<>>
    /\ wpc = "sleep"
    /\ wsess = NoSession
    /\ sent = <<>>
    /\ faults = 0
    /\ stopping = FALSE
    /\ pass = NoPass
    /\ ops = 0
    /\ promos = <<>>
    /\ usages = <<>>
    /\ inflight = <<>>
    /\ balance = [u \in Users |-> 0]
    /\ delivered = [p \in 1..MaxPayments |-> 0]
    /\ spent = [u \in Users |-> 0]
    /\ \E percent \in RewardPercents, amount \in RewardAmounts :
          links = <<[NewReferralLink(1, "x") EXCEPT !.reward_percent = percent,
                                                   !.reward_amount = amount]>>
    /\ referrals = <<>>
    /\ returned = [referred_id |-> 0, value |-> "none"]
    /\ \E payment_amount \in RewardPayments, referral \in RewardReferrals :
          calc = [fn |-> "calculate_referral_reward",
                  payment_amount |-> payment_amount, referral |-> referral,
                  done |-> FALSE, result |-> 0]

\* The call returns.
calculate_reward_return ==
    /\ calc.fn = "calculate_referral_reward"
    /\ ~calc.done
    /\ calc' = [calc EXCEPT !.done = TRUE,
                            !.result = calculate_referral_reward(calc.payment_amount,
                                                                 calc.referral)]
    /\ UNCHANGED <<now, payments, subVars, promoVars, payVars, refVars>>

NextReward == calculate_reward_return

SpecReward == InitReward /\ [][NextReward]_vars

\* =================================================================== claims

Cycle(s) == plans[subs[s].plan_id].billing_cycle_days

\* C1: under every sequence of subscribe, cancel, pause, resume and sweep
\* passes, a user has at most one subscription whose status is active.
C1_AtMostOneActive ==
    \A u \in Users : Cardinality(ActiveSubsOf(u)) <= 1

\* C4: a subscription whose status is cancelled or expired keeps that status
\* in every step.
C4_TerminalStatusKept ==
    [][\A s \in SubIds :
          subs[s].status \in {"cancelled", "expired"}
             => subs'[s].status = subs[s].status]_vars

\* C8: when a billing pass has finished, every subscription that was due at
\* its start and did not itself suffer a fault has next_billing_date advanced
\* by billing_cycle_days and total_paid increased by the plan's price,
\* whatever happened to the other due subscriptions of the pass.
C8_DueSubscriptionsBilledOnce ==
    pass.done =>
        \A s \in pass.due \ pass.faulted :
            /\ subs[s].next_billing_date = pass.start[s].next_billing_date + Cycle(s)
            /\ subs[s].total_paid = pass.start[s].total_paid + plans[subs[s].plan_id].price

\* C9: a step that bills a subscription (its last_payment_id changes) moves
\* next_billing_date and end_date forward by billing_cycle_days each.
C9_BillingAdvancesBothDates ==
    [][\A s \in SubIds :
          subs'[s].last_payment_id # subs[s].last_payment_id
             => /\ subs'[s].next_billing_date = subs[s].next_billing_date + Cycle(s)
                /\ subs'[s].end_date = subs[s].end_date + Cycle(s)]_vars

\* C10: when a billing pass in which the processing of a subscription failed
\* has finished, every other subscription selected by the pass was processed
\* to its commit.
C10_FailureIsolated ==
    (pass.done /\ pass.faulted # {}) => (pass.due \ pass.faulted) \subseteq pass.completed

\* C2: a promo code with a cap of max_uses (one use or more) never has more
\* uses than max_uses, also when requests of different users validate before
\* either applies (no user holding two usage rows of the code).
C2_UsesWithinCap ==
    (\A j, k \in DOMAIN usages :
        (usages[j].promo_code_id = usages[k].promo_code_id
            /\ usages[j].user_id = usages[k].user_id) => j = k)
    => \A p \in PromoIds :
          Truthy(promos[p].max_uses) => promos[p].current_uses <= promos[p].max_uses

\* C3: there is at most one usage row for a promo code and a user, also when
\* two requests of the same user validate before either applies.
C3_OneUsagePerUser ==
    \A j, k \in DOMAIN usages :
        (usages[j].promo_code_id = usages[k].promo_code_id
            /\ usages[j].user_id = usages[k].user_id) => j = k

\* The amounts of the payments 1..n of a user for which a successful-payment
\* event was handled.
RECURSIVE ReportedDeposits(_, _)
ReportedDeposits(user_id, n) ==
    IF n = 0 THEN 0
    ELSE ReportedDeposits(user_id, n - 1)
         + (IF payments[n].user_id = user_id /\ delivered[n] >= 1
            THEN payments[n].amount ELSE 0)

\* C5: a deposit for which Telegram reported the payment, once or repeatedly,
\* is completed, and the balance of its user holds its amount once.
C5_DepositCreditedOnce ==
    /\ \A p \in PayIds : delivered[p] >= 1 => payments[p].status = "completed"
    /\ \A u \in Users : balance[u] = ReportedDeposits(u, Len(payments)) - spent[u]

\* C6: no balance is negative, under every order of deposits, reported
\* payments and purchases.
C6_BalanceNonNegative ==
    \A u \in Users : balance[u] >= 0

\* C6 witness: a user has deposited, Telegram has reported the payment, and
\* a user has bought a service.
C6_Witness ==
    /\ \E p \in PayIds : delivered[p] >= 1
    /\ \E p \in PayIds : payments[p].payment_provider = "internal"

RowsReferring(referred_id) ==
    {r \in ReferralIds : referrals[r].referred_id = referred_id}

\* C7: a person is the referred one of at most one Referral row; and a call
\* of register_referral for a person who is referred already returns False
\* and adds no row.
C7_ReferredOnce ==
    /\ [](\A b \in People : Cardinality(RowsReferring(b)) <= 1)
    /\ [][\A b \in People :
             RowsReferring(b) # {} =>
                /\ RowsReferring(b)' = RowsReferring(b)
                /\ (returned' # returned /\ returned'.referred_id = b)
                      => (returned'.value = "False" /\ referrals' = referrals)]_vars

\* C7 witness: the last call was for a person with a Referral row, and was
\* refused.
C7_Witness ==
    /\ returned.value = "False"
    /\ RowsReferring(returned.referred_id) # {}

\* C11: a pass of check_expired_subscriptions selects every subscription
\* that is active with end_date <= now when it starts, and when the pass
\* completes each selected subscription has status expired and its user was
\* sent the expiry notification.
C11_ExpirySweepExpiresAll ==
    [][/\ (wpc = "exp_begin" /\ wpc' = "exp_loop") =>
             Range(wsess'.list) =
                {s \in SubIds : subs[s].status = "active" /\ subs[s].end_date <= now}
       /\ (wpc = "exp_loop" /\ wpc' = "sleep" /\ faults' = faults) =>
             \A s \in Range(wsess.list) :
                /\ subs'[s].status = "expired"
                /\ sent'[s].expiry >= 1]_vars

\* C11 witness: a pass has completed that expired a subscription and
\* notified its user.
C11_Witness ==
    /\ wpc = "sleep"
    /\ \E s \in SubIds : subs[s].status = "expired" /\ sent[s].expiry >= 1

\* A step of the worker coroutine (the handlers leave wpc and wsess alone).
WorkerStep == wpc' # wpc \/ wsess' # wsess

\* C12: over any sequence of expiry sweep passes a subscription is moved to
\* expired, and its user sent the expiry notification, at most once: the
\* move happens in the pass that notified, no user is notified twice, and a
\* step of a sweep changes nothing of an expired subscription and sends
\* nothing for it.
C12_ExpiredOnce ==
    [][\A s \in SubIds :
          /\ sent'[s].expiry <= 1
          /\ (subs[s].status # "expired" /\ subs'[s].status = "expired")
                => (s \in wsess.marked /\ sent[s].expiry = 1)
          /\ (subs[s].status = "expired" /\ WorkerStep)
                => (subs'[s] = subs[s] /\ sent'[s] = sent[s])]_vars

\* C12 witness: an expiry pass is running that started when a subscription
\* was expired already, and did not select it.
C12_Witness ==
    /\ wpc = "exp_loop"
    /\ \E s \in SubIds :
          /\ subs[s].status = "expired"
          /\ sent[s].expiry = 1
          /\ s \notin Range(wsess.list)

\* A step that changes a subscription or counts a successful call: a call
\* that fails changes nothing at all, so the other steps of the handlers are
\* those that leave every variable as it was.
HandlerEffect == subs' # subs \/ ops' # ops

\* C13: pause_subscription succeeds exactly when the subscription of that
\* user is active, and then sets it to paused; resume_subscription succeeds
\* exactly when it is paused, and then sets it to active; from any other
\* status each call returns False and leaves every subscription as it was.
C13_PauseResume ==
    [][HandlerEffect => \A u \in Users, s \in RequestedSubIds :
          /\ pause_subscription(u, s) =>
                IF s \in SubIds /\ subs[s].user_id = u /\ subs[s].status = "active"
                THEN /\ subs' = [subs EXCEPT ![s].status = "paused"]
                     /\ ops' = ops + 1
                ELSE subs' = subs /\ ops' = ops
          /\ resume_subscription(u, s) =>
                IF s \in SubIds /\ subs[s].user_id = u /\ subs[s].status = "paused"
                THEN /\ subs' = [subs EXCEPT ![s].status = "active"]
                     /\ ops' = ops + 1
                ELSE subs' = subs /\ ops' = ops]_vars

\* C13 witness: a subscription was paused and, after its user subscribed
\* again, resumed: the user has two active subscriptions.
C13_Witness ==
    \E u \in Users : Cardinality(ActiveSubsOf(u)) = 2

\* C14: cancel_subscription returns False and changes nothing when no
\* subscription with that id belongs to the user or when cancellation_count
\* has reached the plan's max_cancellations; otherwise it sets status
\* cancelled and auto_renewal false and adds 1 to cancellation_count; so
\* cancellation_count never exceeds max_cancellations.
C14_CancelWithinLimit ==
    /\ [](\A s \in SubIds :
             subs[s].cancellation_count <= plans[subs[s].plan_id].max_cancellations)
    /\ [][HandlerEffect => \A u \in Users, s \in RequestedSubIds :
             cancel_subscription(u, s) =>
                IF /\ s \in SubIds
                   /\ subs[s].user_id = u
                   /\ subs[s].cancellation_count
                         < plans[subs[s].plan_id].max_cancellations
                THEN /\ subs' = [subs EXCEPT
                                    ![s].status = "cancelled",
                                    ![s].auto_renewal = FALSE,
                                    ![s].cancellation_count =
                                        subs[s].cancellation_count + 1]
                     /\ ops' = ops + 1
                ELSE subs' = subs /\ ops' = ops]_vars

\* C14 witness: a subscription was cancelled and has used up the
\* cancellations of its plan.
C14_Witness ==
    \E s \in SubIds :
        /\ subs[s].status = "cancelled"
        /\ ~subs[s].auto_renewal
        /\ subs[s].cancellation_count = plans[subs[s].plan_id].max_cancellations

\* C15: subscribe_user fails and creates no row when the plan is missing or
\* inactive or when the user has an active subscription (of any plan);
\* otherwise it creates exactly one subscription, for that user and plan.
C15_SubscribeOutcome ==
    [][HandlerEffect => \A u \in Users, r \in SubscribeRequests :
          subscribe_user(u, r[1], r[2]) =>
             IF /\ r[1] \in PlanIds
                /\ plans[r[1]].is_active
                /\ ~\E s \in SubIds : subs[s].user_id = u /\ subs[s].status = "active"
             THEN /\ Len(subs') = Len(subs) + 1
                  /\ SubSeq(subs', 1, Len(subs)) = subs
                  /\ subs'[Len(subs')].user_id = u
                  /\ subs'[Len(subs')].plan_id = r[1]
                  /\ subs'[Len(subs')].status = "active"
                  /\ ops' = ops + 1
             ELSE subs' = subs /\ ops' = ops]_vars

\* C15 witness: a user has an active subscription and another user has
\* subscribed too.
C15_Witness ==
    /\ Len(subs) >= 2
    /\ \E s \in SubIds : subs[s].user_id = 1 /\ subs[s].status = "active"
    /\ \E s \in SubIds : subs[s].user_id = 2

\* A finished call of _calculate_discount for a promo code of the given type.
DiscountReturned(promo_type) ==
    /\ calc.fn = "_calculate_discount"
    /\ calc.done
    /\ calc.promo_code.promo_type = promo_type

\* C18: for a percentage promo the discount is order_amount * discount_value
\* / 100, replaced by max_discount when a (positive) max_discount is set and
\* the computed discount exceeds it, and final_amount = order_amount -
\* discount_amount; 10% of 1000 gives 100 and 900, 50% capped at 80 gives 80.
C18_PercentageDiscount ==
    DiscountReturned("percentage") =>
        LET order_amount == calc.order_amount
            value == calc.promo_code.discount_value
            max_discount == calc.promo_code.max_discount
            computed == (order_amount * value) \div 100
            expected == IF max_discount \notin {None, 0} /\ computed > max_discount
                        THEN max_discount ELSE computed
        IN  /\ calc.result.discount_amount = expected
            /\ calc.result.final_amount = order_amount - expected
            /\ (value = 10 /\ max_discount = None /\ order_amount = 1000)
                  => (calc.result.discount_amount = 100
                        /\ calc.result.final_amount = 900)
            /\ (value = 50 /\ max_discount = 80 /\ order_amount = 1000)
                  => calc.result.discount_amount = 80

\* C18 witness: 50% with max_discount 80 on an order of 1000 returned 80.
C18_Witness ==
    /\ DiscountReturned("percentage")
    /\ calc.promo_code.discount_value = 50
    /\ calc.promo_code.max_discount = 80
    /\ calc.order_amount = 1000
    /\ calc.result.discount_amount = 80

\* C19: for a fixed promo the discount is the smaller of discount_value and
\* order_amount and final_amount = order_amount - discount_amount, so the
\* discount never exceeds the order and the final amount is never negative;
\* 200 on an order of 150 gives 150 and 0.
C19_FixedDiscount ==
    DiscountReturned("fixed") =>
        LET order_amount == calc.order_amount
            value == calc.promo_code.discount_value
            expected == IF value <= order_amount THEN value ELSE order_amount
        IN  /\ calc.result.discount_amount = expected
            /\ calc.result.final_amount = order_amount - expected
            /\ calc.result.discount_amount <= order_amount
            /\ calc.result.final_amount >= 0
            /\ (value = 200 /\ order_amount = 150)
                  => (calc.result.discount_amount = 150
                        /\ calc.result.final_amount = 0)

\* C19 witness: a fixed discount of 200 on an order of 150 returned 150 and 0.
C19_Witness ==
    /\ DiscountReturned("fixed")
    /\ calc.promo_code.discount_value = 200
    /\ calc.order_amount = 150
    /\ calc.result = [discount_amount |-> 150, final_amount |-> 0]

\* The spellings users type of the code of a promo row.
SpellingsOf(p) == {code \in TypedCodes : Upper(code) = promos[p].code}

\* C16: a step that applies a promo code inserts exactly one usage row and
\* adds exactly 1 to current_uses of that code (and of no other); a code with
\* a cap of max_uses (one use or more) is inactive as soon as current_uses
\* has reached it; and once the code with max_uses = 1 was applied,
\* current_uses = 1, is_active = false and every validate_promo_code of it
\* returns the not-found result.
C16_ApplyCountsAndDeactivates ==
    /\ [][usages' # usages =>
            /\ Len(usages') = Len(usages) + 1
            /\ SubSeq(usages', 1, Len(usages)) = usages
            /\ LET p == usages'[Len(usages')].promo_code_id
               IN  /\ p \in PromoIds
                   /\ promos'[p].current_uses = promos[p].current_uses + 1
                   /\ \A q \in PromoIds \ {p} : promos'[q] = promos[q]]_vars
    /\ [][promos' # promos /\ Len(promos') = Len(promos) => usages' # usages]_vars
    /\ [](\A p \in PromoIds :
            (Truthy(promos[p].max_uses)
                /\ promos[p].current_uses >= promos[p].max_uses)
            => /\ ~promos[p].is_active
               /\ \A code \in SpellingsOf(p), u \in Users, a \in OrderAmounts :
                     validate_promo_code(code, u, a) = Rejected("not found"))
    /\ [](\A p \in PromoIds :
            (promos[p].max_uses = 1 /\ \E k \in DOMAIN usages : usages[k].promo_code_id = p)
            => promos[p].current_uses >= 1 /\ ~promos[p].is_active)

\* C16 witness: the code with max_uses = 1 was applied once.
C16_Witness ==
    \E p \in PromoIds :
        /\ promos[p].max_uses = 1
        /\ promos[p].current_uses = 1
        /\ ~promos[p].is_active
        /\ \E k \in DOMAIN usages : usages[k].promo_code_id = p

\* C17 as claimed: once a promo code was applied for a user, every
\* validate_promo_code of that code for that user is refused with the
\* reason that the user has used the code already.
C17_DuplicateReasonAlways ==
    \A k \in DOMAIN usages :
        \A code \in SpellingsOf(usages[k].promo_code_id), a \in OrderAmounts :
            validate_promo_code(code, usages[k].user_id, a) = Rejected("already used")

\* C17 as amended: once a promo code was applied for a user, every
\* validate_promo_code of that code for that user returns valid = false; the
\* reason is that the user has used the code already whenever the code is
\* still active, within its period of validity, below its cap of uses, and
\* the order reaches min_order_amount.
C17_DuplicateRefused ==
    \A k \in DOMAIN usages :
        LET p == usages[k].promo_code_id
            passes(a) ==
                /\ promos[p].is_active
                /\ promos[p].valid_from <= now
                /\ (promos[p].valid_to = None \/ promos[p].valid_to >= now)
                /\ ~(Truthy(promos[p].max_uses)
                       /\ promos[p].current_uses >= promos[p].max_uses)
                /\ a >= promos[p].min_order_amount
        IN  \A code \in SpellingsOf(p), a \in OrderAmounts :
                /\ ~validate_promo_code(code, usages[k].user_id, a).valid
                /\ passes(a) =>
                      validate_promo_code(code, usages[k].user_id, a)
                         = Rejected("already used")

\* C17 witness: a user has applied a code that is still active, and the
\* validation of the code for that user is refused as a duplicate.
C17_Witness ==
    \E k \in DOMAIN usages :
        /\ promos[usages[k].promo_code_id].is_active
        /\ \E code \in SpellingsOf(usages[k].promo_code_id), a \in OrderAmounts :
              validate_promo_code(code, usages[k].user_id, a) = Rejected("already used")

\* The referral of the finished call has a link whose row exists.
RewardLinked ==
    /\ calc.referral.referral_link_id # None
    /\ calc.referral.referral_link_id \in LinkIds

RewardDefault == (calc.payment_amount * 10) \div 100

\* C20 as stated: calculate_referral_reward returns payment_amount *
\* reward_percent / 100 when the referral has a link with a positive
\* reward_percent; else the link's reward_amount when the link specifies one;
\* else (no link, or a link with neither) the default payment_amount * 10 /
\* 100.
C20_RewardRule ==
    (calc.fn = "calculate_referral_reward" /\ calc.done) =>
        LET link == links[calc.referral.referral_link_id]
        IN  calc.result =
               IF RewardLinked /\ link.reward_percent > 0
               THEN (calc.payment_amount * link.reward_percent) \div 100
               ELSE IF RewardLinked /\ link.reward_amount > 0
               THEN link.reward_amount
               ELSE RewardDefault

\* C20, amended: with a link whose row exists the result is payment_amount *
\* reward_percent / 100 when reward_percent is positive and the link's
\* reward_amount otherwise, 0 included; the default payment_amount * 10 / 100
\* is returned only when the referral has no link or the link's row does not
\* exist.  A link at 20% on 500 gives 100; no link on 500 gives 50.
C20_RewardFromLink ==
    (calc.fn = "calculate_referral_reward" /\ calc.done) =>
        LET link == links[calc.referral.referral_link_id]
        IN  /\ RewardLinked /\ link.reward_percent > 0 =>
                 calc.result = (calc.payment_amount * link.reward_percent) \div 100
            /\ RewardLinked /\ link.reward_percent <= 0 =>
                 calc.result = link.reward_amount
            /\ ~RewardLinked => calc.result = RewardDefault
            /\ RewardLinked /\ link.reward_percent = 20 /\ calc.payment_amount = 500 =>
                 calc.result = 100
            /\ calc.referral.referral_link_id = None /\ calc.payment_amount = 500 =>
                 calc.result = 50

\* A reward of 0 was returned for a payment of 500 through a link with no
\* percentage and no flat amount.
C20_Witness ==
    /\ calc.fn = "calculate_referral_reward"
    /\ calc.done
    /\ RewardLinked
    /\ links[calc.referral.referral_link_id].reward_percent = 0
    /\ links[calc.referral.referral_link_id].reward_amount = 0
    /\ calc.payment_amount = 500
    /\ calc.result = 0

\* The links with this code that belong to this user and are active.
LinksFor(a, code) ==
    {l \in LinkIds : links[l].code = code /\ links[l].user_id = a /\ links[l].is_active}

\* The link has a cap and has reached it.
AtCap(l) ==
    links[l].max_uses # None /\ links[l].current_uses >= links[l].max_uses

\* The Referral row of a and b without link attribution.
Unattributed(a, b) ==
    [referrer_id |-> a, referred_id |-> b, referral_link_id |-> None]

\* C21 as claimed: register_referral for a person who is not referred yet,
\* with a code that has no matching valid link (unknown code, link of another
\* user, inactive link, or link at its cap of uses), records the referral
\* without link attribution and returns True.
C21_InvalidLinkRecorded ==
    [][\A a \in Users, b \in People, code \in RegisterCodes \ {""} :
          (/\ register_referral(a, b, code)
           /\ RowsReferring(b) = {}
           /\ \A l \in LinksFor(a, code) : AtCap(l))
          => /\ referrals' = Append(referrals, Unattributed(a, b))
             /\ links' = links
             /\ returned' = [referred_id |-> b, value |-> "True"]]_vars

\* C21, amended: register_referral for a person who is not referred yet,
\* with a code that matches no active link of the referrer (unknown code,
\* link of another user, inactive link), records the referral without link
\* attribution and returns True; with a code whose active link of the
\* referrer is at its cap of uses it returns False and records nothing.
C21_UnmatchedLinkRecorded ==
    [][\A a \in Users, b \in People, code \in RegisterCodes \ {""} :
          (register_referral(a, b, code) /\ RowsReferring(b) = {})
          => IF LinksFor(a, code) = {}
             THEN /\ referrals' = Append(referrals, Unattributed(a, b))
                  /\ links' = links
                  /\ returned' = [referred_id |-> b, value |-> "True"]
             ELSE (\A l \in LinksFor(a, code) : AtCap(l))
                  => /\ referrals' = referrals
                     /\ links' = links
                     /\ returned' = [referred_id |-> b, value |-> "False"]]_vars

\* C21 witness: a referral of a referrer who owns a link was recorded
\* without link attribution, and the last call, for a person not referred
\* yet, was refused at the cap of the link.
C21_Witness ==
    /\ \E r \in ReferralIds :
          /\ referrals[r].referral_link_id = None
          /\ \E l \in LinkIds : links[l].user_id = referrals[r].referrer_id
    /\ returned.value = "False"
    /\ RowsReferring(returned.referred_id) = {}
    /\ \E l \in LinkIds : AtCap(l)

\* C22: once the worker is shut down no sweep is started, and a sweep that
\* is in flight completes the item it is processing (the commit of the item
\* is the worker's next step) and begins no further item.
C22_GracefulShutdown ==
    [][stopping =>
          /\ ~(wpc = "sleep" /\ wpc' = "bill_loop")
          /\ ~(wpc = "exp_begin" /\ wpc' = "exp_loop")
          /\ (wpc = "bill_await" /\ WorkerStep) => wpc' = "bill_loop"
          /\ (wpc = "exp_await" /\ WorkerStep) => wpc' = "exp_loop"
          /\ wpc' \notin {"bill_await", "exp_await"} \/ wpc' = wpc]_vars

\* C23: the billing sweep bills only a subscription that is active at that
\* moment: the step that creates the payment of a subscription finds it
\* active (not cancelled or paused while the sweep awaited the notification
\* of an earlier item), and total_paid and next_billing_date change only for
\* the subscription whose payment was so created.
C23_BilledWhileActive ==
    [][\A s \in SubIds :
          /\ (wpc = "bill_loop" /\ wpc' = "bill_await" /\ wsess'.sub = s)
                => subs[s].status = "active"
          /\ (\/ subs'[s].total_paid # subs[s].total_paid
              \/ subs'[s].next_billing_date # subs[s].next_billing_date)
                => (wpc = "bill_await" /\ wsess.sub = s)]_vars

\* C24: a subscription that its user has cancelled or paused is not moved
\* to expired by the expiry sweep, also when the cancel or pause was committed
\* while the sweep awaited a notification, before its final commit.
C24_UserStatusKept ==
    [][\A s \in SubIds :
          (WorkerStep /\ subs[s].status \in {"cancelled", "paused"})
             => subs'[s].status = subs[s].status]_vars

\* C25: the expiry sweep of a worker iteration does not select (and so does
\* not expire) a subscription that the billing sweep of the same iteration
\* has billed, however long its next_billing_date was overdue.
C25_BilledNotExpired ==
    [][(wpc = "exp_begin" /\ wpc' = "exp_loop")
          => \A s \in pass.completed : s \notin Range(wsess'.list)]_vars

\* C26: every change of the status of a subscription is one of pending ->
\* active, active -> cancelled, active -> expired, active -> paused, paused
\* -> active.
C26_StatusTransitions ==
    [][\A s \in SubIds :
          subs'[s].status # subs[s].status
             => <<subs[s].status, subs'[s].status>> \in
                   {<<"pending", "active">>, <<"active", "cancelled">>,
                    <<"active", "expired">>, <<"active", "paused">>,
                    <<"paused", "active">>}]_vars

\* The six checks of a validation of code for user_id and order_amount, in
\* the order of the claim: whether each fails, and the reason it gives.
ValidationChecks(code, user_id, order_amount) ==
    LET found == {p \in PromoIds : promos[p].code = Upper(code) /\ promos[p].is_active}
        p == IF found = {} THEN 1 ELSE CHOOSE q \in found : TRUE
        row == promos[p]
    IN  << [fails |-> found = {}, message |-> "not found"],
           [fails |-> found # {} /\ now < row.valid_from,
            message |-> "not active yet"],
           [fails |-> found # {} /\ row.valid_to # None /\ now > row.valid_to,
            message |-> "expired"],
           [fails |-> found # {} /\ row.max_uses \notin {None, 0}
                         /\ row.current_uses >= row.max_uses,
            message |-> "usage limit reached"],
           [fails |-> found # {} /\ order_amount < row.min_order_amount,
            message |-> "order below minimum"],
           [fails |-> found # {} /\ \E k \in DOMAIN usages :
                         usages[k].promo_code_id = p /\ usages[k].user_id = user_id,
            message |-> "already used"] >>

\* C27: validate_promo_code rejects with the reason of the first check that
\* fails, in the order: not found or inactive, not yet valid, expired, cap of
\* uses (one or more) reached, order below min_order_amount, already used by
\* this user; it returns valid, with the discount, only when all six pass;
\* and it changes neither promo_codes nor promo_code_usages.
C27_FirstFailingCheck ==
    /\ [](calc.fn = "validate_promo_code" /\ calc.done =>
            LET checks == ValidationChecks(calc.code, calc.user_id, calc.order_amount)
                failing == {i \in DOMAIN checks : checks[i].fails}
                discount == (calc.order_amount * promos[1].discount_value) \div 100
            IN  IF failing = {}
                THEN /\ calc.result.valid
                     /\ calc.result.discount_amount = discount
                     /\ calc.result.final_amount = calc.order_amount - discount
                ELSE /\ ~calc.result.valid
                     /\ \E i \in failing :
                           /\ \A j \in failing : i <= j
                           /\ calc.result.message = checks[i].message)
    /\ [][calc' # calc => promos' = promos /\ usages' = usages]_vars

\* C27 witness: for a row that is active, valid and below its cap, a call
\* with an order below the minimum by the user who has used the code was
\* rejected for the order, the earlier of the two failing checks.
C27_Witness ==
    /\ calc.fn = "validate_promo_code"
    /\ calc.done
    /\ calc.order_amount < promos[1].min_order_amount
    /\ \E k \in DOMAIN usages : usages[k].user_id = calc.user_id
    /\ calc.result.message = "order below minimum"

\* C28: every subscription has next_billing_date <= end_date, from its
\* creation by subscribe_user, with or without a trial, through every pass of
\* the billing sweep.
C28_BillingBeforeEnd ==
    \A s \in SubIds : subs[s].next_billing_date <= subs[s].end_date

\* C28 witness: a subscription created without a trial and one created with
\* a trial exist, and the billing sweep has billed a subscription.
C28_Witness ==
    /\ \E s \in SubIds : subs[s].trial_end_date = None
    /\ \E s \in SubIds : subs[s].trial_end_date # None
                           /\ subs[s].next_billing_date < subs[s].end_date
    /\ \E s \in SubIds : subs[s].last_payment_id # None

\* C29: for every kind of promo, every order amount >= 0, every positive
\* discount_value and every max_discount (none or positive), the discount
\* that validate_promo_code and apply_promo_code return (both take it from
\* _calculate_discount) satisfies 0 <= discount_amount <= order_amount and
\* final_amount = order_amount - discount_amount >= 0.
C29_DiscountWithinOrder ==
    (/\ calc.fn = "_calculate_discount"
     /\ calc.done
     /\ calc.promo_code.discount_value > 0
     /\ (calc.promo_code.max_discount = None \/ calc.promo_code.max_discount > 0))
    => /\ 0 <= calc.result.discount_amount
       /\ calc.result.discount_amount <= calc.order_amount
       /\ calc.result.final_amount = calc.order_amount - calc.result.discount_amount
       /\ calc.result.final_amount >= 0

\* C30: a step that records a referral attributed to a link is a
\* registration by the owner of the link, with the code of the link, of a link
\* that is active and, when it has a cap, has current_uses below it; the step
\* adds exactly 1 to current_uses of that link, nothing else changes a link,
\* and current_uses of a link with a cap never exceeds the cap.
C30_AttributedWithinCap ==
    /\ [][referrals' # referrals =>
            LET r == referrals'[Len(referrals')]
                l == r.referral_link_id
            IN  /\ Len(referrals') = Len(referrals) + 1
                /\ IF l = None THEN links' = links
                   ELSE /\ l \in LinkIds
                        /\ \E code \in RegisterCodes :
                              /\ links[l].code = code
                              /\ register_referral(r.referrer_id, r.referred_id, code)
                        /\ links[l].user_id = r.referrer_id
                        /\ links[l].is_active
                        /\ links[l].max_uses = None
                              \/ links[l].current_uses < links[l].max_uses
                        /\ links' = [links EXCEPT ![l].current_uses =
                                                      links[l].current_uses + 1]]_vars
    /\ [][links' # links => referrals' # referrals]_vars
    /\ [](\A l \in LinkIds :
             links[l].max_uses # None => links[l].current_uses <= links[l].max_uses)

\* C30 witness: a link with a cap of 2 has two referrals attributed to it and
\* current_uses = 2.
C30_Witness ==
    \E l \in LinkIds :
        /\ links[l].max_uses = 2
        /\ links[l].current_uses = 2
        /\ Cardinality({r \in ReferralIds : referrals[r].referral_link_id = l}) = 2

\* C31: a fault of the billing sweep does not keep the expiry sweep of the
\* same worker iteration from running: the worker goes to sleep on a fault
\* only out of check_expired_subscriptions.
C31_ExpiryRunsAfterBillingFault ==
    [][(faults' # faults /\ wpc' = "sleep") => wpc \in {"exp_begin", "exp_loop"}]_vars

\* C32: a fault inside a sweep never ends the worker: the task does not
\* exit, and the billing sweep and the expiry sweep are started again and
\* again, whatever faults occurred.
C32_WorkerSurvivesFaults ==
    /\ [](wpc # "exited")
    /\ []<>(wpc = "bill_loop")
    /\ []<>(wpc = "exp_loop")

\* C32 witness: after the fault of an earlier pass a new billing pass is
\* running on a fresh session.
C32_Witness ==
    /\ faults < MaxFaults
    /\ wpc = "bill_loop"
    /\ ~wsess.broken

\* The link's expires_at has passed.
LinkExpired(l) == links[l].expires_at # None /\ links[l].expires_at < now

\* C33: a referral is never attributed to a link whose expires_at has
\* passed: no step records a referral with referral_link_id of such a link,
\* and no step adds to its current_uses.
C33_ExpiredLinkNotUsed ==
    [][/\ referrals' # referrals =>
            LET l == referrals'[Len(referrals')].referral_link_id
            IN  l # None => ~LinkExpired(l)
       /\ \A l \in LinkIds :
            LinkExpired(l) => links'[l].current_uses = links[l].current_uses]_vars

\* The step completes the payment that the billing sweep created for
\* subscription s (the sweep holds both while it awaits the notification).
CompletesPaymentOf(s) ==
    /\ wpc = "bill_await"
    /\ wsess.sub = s
    /\ payments[wsess.payment].status # "completed"
    /\ payments'[wsess.payment].status = "completed"

\* C34: total_paid of a subscription is the sum of the amounts of the
\* completed payments the billing sweep created for it: it is 0 when the
\* subscription is created, every step adds to it the amount of the payment
\* of the subscription that the step completes and nothing otherwise, and a
\* payment of the sweep is completed only by such a step.
C34_TotalPaidIsSumOfPayments ==
    [][(subs' # subs \/ payments' # payments) =>
       /\ \A s \in SubIds :
            subs'[s].total_paid =
               subs[s].total_paid
                  + (IF CompletesPaymentOf(s) THEN payments[wsess.payment].amount ELSE 0)
       /\ \A s \in DOMAIN subs' \ SubIds : subs'[s].total_paid = 0
       /\ \A p \in PayIds :
            (/\ payments[p].payment_provider = "subscription"
             /\ payments'[p].status # payments[p].status)
            => \E s \in SubIds : CompletesPaymentOf(s) /\ wsess.payment = p
       /\ \A p \in DOMAIN payments' \ PayIds :
            payments'[p].payment_provider = "subscription"
               => payments'[p].status # "completed"]_vars

\* C34 witness: a subscription was billed: its payment is completed and
\* total_paid holds its amount.
C34_Witness ==
    \E s \in SubIds :
        /\ subs[s].last_payment_id # None
        /\ payments[subs[s].last_payment_id].status = "completed"
        /\ subs[s].total_paid = payments[subs[s].last_payment_id].amount

\* total_uses of get_promo_code_stats: the usage rows of the code.
UsagesOf(p) == {k \in DOMAIN usages : usages[k].promo_code_id = p}

\* C35: for every promo code, current_uses is the number of usage rows of
\* the code (current_uses and total_uses of get_promo_code_stats are equal),
\* after any sequence of apply_promo_code calls.
C35_UsesMatchUsageRows ==
    \A p \in PromoIds : promos[p].current_uses = Cardinality(UsagesOf(p))

\* C35 witness: a code was applied twice.
C35_Witness ==
    \E p \in PromoIds :
        promos[p].current_uses = 2 /\ Cardinality(UsagesOf(p)) = 2

\* C36: no two promo codes share the same upper-cased code, and
\* create_promo_code called with a code that differs from an existing code
\* at most in letter case is refused with its "code already exists"
\* ValueError (and creates no row).
C36_CaseVariantRejected ==
    /\ \A p, q \in PromoIds :
          Upper(promos[p].code) = Upper(promos[q].code) => p = q
    /\ \A in \in PromoInputs :
          (\E p \in PromoIds : Upper(promos[p].code) = Upper(in.code))
             => CreateOutcome(in.code) = "ValueError"

\* The terminal statuses of a payment.
TerminalStatuses == {"completed", "failed", "cancelled"}

\* A step changes the status of a stored payment only from pending to a
\* terminal status, and removes or reorders no payment.
StatusChangesOnce ==
    /\ Len(payments') >= Len(payments)
    /\ \A p \in PayIds :
          payments'[p].status # payments[p].status
             => /\ payments[p].status = "pending"
                /\ payments'[p].status \in TerminalStatuses

\* The payments a step inserts.
NewPayIds == (DOMAIN payments') \ PayIds

\* C37 as claimed: every payment is created pending and changes status at
\* most once, to completed, failed or cancelled; a payment in a terminal
\* status never changes status again.
C37_CreatedPendingSettledOnce ==
    [][(payments' # payments) =>
          /\ StatusChangesOnce
          /\ \A p \in NewPayIds : payments'[p].status = "pending"]_vars

\* C37 as amended: a deposit or subscription billing payment is created
\* pending, the payment that records a service purchase paid from the
\* balance is created completed; every payment changes status at most once,
\* from pending to completed, failed or cancelled, and never leaves a
\* terminal status.
C37_SettledOnce ==
    [][(payments' # payments) =>
          /\ StatusChangesOnce
          /\ \A p \in NewPayIds :
                IF payments'[p].payment_provider = "internal"
                THEN payments'[p].status = "completed"
                ELSE payments'[p].status = "pending"]_vars

\* C37 witness: a deposit is pending, a purchase is recorded, and a billing
\* payment has been completed by the sweep.
C37_Witness ==
    /\ \E p \in PayIds : /\ payments[p].payment_provider \in Providers
                         /\ payments[p].status = "pending"
    /\ \E p \in PayIds : /\ payments[p].payment_provider = "internal"
                         /\ payments[p].status = "completed"
    /\ \E p \in PayIds : /\ payments[p].payment_provider = "subscription"
                         /\ payments[p].status = "completed"

\* C38: credits and debits of a balance are atomic: under every interleaving
\* of deposit completions and service purchases of a user, each step moves
\* the balance by exactly the amount of the deposit whose completion it
\* handles (a credit) less the price of the purchase it makes (a debit), so
\* that the balance always is the initial one plus all credits minus all
\* debits and no update is lost.
C38_NoLostUpdate ==
    [][(delivered' # delivered \/ spent' # spent \/ balance' # balance) =>
          \A u \in Users :
             LET completed == {p \in PayIds : /\ payments[p].user_id = u
                                              /\ delivered[p] = 0
                                              /\ delivered'[p] = 1}
                 credit == IF completed = {} THEN 0
                           ELSE payments[CHOOSE p \in completed : TRUE].amount
                 debit == spent'[u] - spent[u]
             IN  balance'[u] = balance[u] + credit - debit]_vars

\* Subscription s as the query of the running billing pass found it: active,
\* renewing by itself, with a saved payment method and a billing date that
\* has come at the now of the pass.
SelectedDue(s) ==
    /\ s \in DOMAIN pass.start
    /\ pass.start[s].status = "active"
    /\ pass.start[s].auto_renewal
    /\ pass.start[s].payment_method_id # "None"
    /\ pass.start[s].next_billing_date <= wsess.now

C40_CaseInsensitiveLookup ==
    \A p \in PromoIds, code \in TypedCodes :
        Upper(code) = Upper(promos[p].code) =>
           /\ promos[p].is_active => FindActivePromo(code) = {p}
           /\ \A u \in Users, a \in OrderAmounts :
                 validate_promo_code(code, u, a)
                    = validate_promo_code(promos[p].code, u, a)

\* C40 witness: a promo code that a request has validated is valid for a
\* user under its upper-case and under its lower-case spelling.
C40_Witness ==
    \E p \in PromoIds, u \in Users, a \in OrderAmounts :
        /\ \E i \in DOMAIN inflight : inflight[i].promo_code_id = p
        /\ validate_promo_code(<<"a">>, u, a).valid
        /\ validate_promo_code(<<"a">>, u, a).promo_code_id = p
        /\ validate_promo_code(<<"A">>, u, a).valid
        /\ validate_promo_code(<<"A">>, u, a).promo_code_id = p

====
